---- MODULE Spec2Model ----
(***************************************************************************)
(* Model of the Minesweeper board engine (src/src/board.rs) and of the     *)
(* session that drives it (src/src/app.rs).                                *)
(*                                                                         *)
(* The board is a flat array of cells indexed by y*width + x.  Mines are   *)
(* placed lazily by the first in-bounds reveal; the shuffle of the         *)
(* candidate indices is the one nondeterministic step.                     *)
(*                                                                         *)
(* Spec      the board under calls of its public operations                *)
(* SpecPlace Spec with direct calls of place_mines_excluding               *)
(* SpecNew   Spec with Board::new called on arbitrary arguments            *)
(* SpecApp   the session: AppState::new and handle_action                  *)
(* SpecNeighbors  neighbors called on every cell of larger boards          *)
(***************************************************************************)
EXTENDS Integers, Sequences, FiniteSets, TLC

\* ------------------------------------------------------------------ bounds
MaxW == 4
MaxH == 2
MaxCells == 4
MaxMines == 2
MaxInstant == 2
MaxSide == 4

\* ------------------------------------------------------------------- state
VARIABLES
    width,          \* Board.width
    height,         \* Board.height
    mines,          \* Board.mines
    mines_placed,   \* Board.mines_placed
    minefield,      \* Board.minefield : [0..len-1 -> BOOLEAN]
    state,          \* Board.state     : [0..len-1 -> CellState]
    last,           \* history: the last call and what it returned
    first_reveal,   \* history: target of the first in-bounds reveal
    before,         \* history: Board.state before the last call, when that
                    \* call was a toggle_flag, and whether the call before
                    \* it was a toggle_flag on the same cell
    cursor,             \* AppState.cursor
    difficulty,         \* AppState.difficulty
    first_click_done,   \* AppState.first_click_done
    start_time,         \* AppState.start_time: {} is None, {t} is Some(t)
    flags_placed,       \* AppState.flags_placed
    status,             \* AppState.status
    command             \* history: the Command handle_action returned

bvars == <<width, height, mines, mines_placed, minefield, state>>
svars == <<cursor, difficulty, first_click_done, start_time, flags_placed, status, command>>
hvars == <<last, first_reveal, before>>
vars == <<bvars, hvars, svars>>

\* -------------------------------------------------------------- CellState
Hidden == [tag |-> "Hidden", n |-> 0]
Flagged == [tag |-> "Flagged", n |-> 0]
Revealed(n) == [tag |-> "Revealed", n |-> n]
IsRevealed(c) == c.tag = "Revealed"

NoCell == <<>>

\* Value of `before` when the last call was not a toggle_flag.
NoBoard == [st |-> <<>>, again |-> FALSE]

Call(op, x, y, ret) == [op |-> op, x |-> x, y |-> y, ret |-> ret]

\* ---------------------------------------------------------------- helpers
idx(x, y) == y * width + x

in_bounds(x, y) == x >= 0 /\ y >= 0 /\ x < width /\ y < height

\* (dx, dy) pairs in the order the iterator yields them: dy outer, dx inner,
\* (0, 0) filtered out.
Offsets ==
    << <<-1, -1>>, <<0, -1>>, <<1, -1>>,
       <<-1, 0>>,             <<1, 0>>,
       <<-1, 1>>,  <<0, 1>>,  <<1, 1>> >>

\* Variant: the offset (0, 0) is not filtered out.
neighbors_with_self(x, y) ==
    LET moved == [k \in 1..9 |-> <<x + ((k - 1) % 3) - 1, y + ((k - 1) \div 3) - 1>>]
        Inside(p) == in_bounds(p[1], p[2])
    IN  SelectSeq(moved, Inside)

neighbors(x, y) ==
    LET moved == [k \in 1..Len(Offsets) |-> <<x + Offsets[k][1], y + Offsets[k][2]>>]
        Inside(p) == in_bounds(p[1], p[2])
    IN  SelectSeq(moved, Inside)

\* Variant: the first neighbour is skipped.
adjacent_mine_count_skip(mf, x, y) ==
    LET ns == neighbors(x, y)
    IN  Cardinality({k \in 2..Len(ns) : mf[idx(ns[k][1], ns[k][2])]}) % 256

adjacent_mine_count(mf, x, y) ==
    LET ns == neighbors(x, y)
    IN  Cardinality({k \in 1..Len(ns) : mf[idx(ns[k][1], ns[k][2])]}) % 256

\* Variant: the excluded index is not filtered out of the candidates.
place_mines_anywhere(exclude) ==
    LET total == width * height
        candidates == 0..(total - 1)
        taken == {T \in SUBSET candidates : Cardinality(T) = mines}
    IN  {[i \in 0..(total - 1) |-> i \in T] : T \in taken}

\* Variant: the prefix taken from the shuffle may be shorter than `mines`.
place_mines_short(exclude) ==
    LET total == width * height
        exclude_idx == idx(exclude[1], exclude[2])
        candidates == {i \in 0..(total - 1) : i # exclude_idx}
        taken == {T \in SUBSET candidates : Cardinality(T) <= mines}
    IN  {[i \in 0..(total - 1) |-> i \in T] : T \in taken}

\* The set of minefields place_mines_excluding can produce: shuffling the
\* candidates and taking the first `mines` of them yields any subset of the
\* candidates of that size.
place_mines_excluding(exclude) ==
    LET total == width * height
        exclude_idx == idx(exclude[1], exclude[2])
        candidates == {i \in 0..(total - 1) : i # exclude_idx}
        taken == {T \in SUBSET candidates : Cardinality(T) = mines}
    IN  {[i \in 0..(total - 1) |-> i \in T] : T \in taken}

\* Variant: a Flagged cell is filled like a Hidden one.
FillableFlagged(mf, st, i) == ~IsRevealed(st[i]) /\ ~mf[i]

\* The test of the flood fill on one neighbour.
Fillable(mf, st, i) == st[i] = Hidden /\ ~mf[i]

\* The `for (nx, ny) in neighbors` loop of flood_fill_zeroes, from the k-th
\* neighbour on.
RECURSIVE FillNeighbors(_, _, _, _, _)
FillNeighbors(ns, k, mf, st, stack) ==
    IF k > Len(ns) THEN [st |-> st, stack |-> stack]
    ELSE LET nx == ns[k][1]
             ny == ns[k][2]
             i == idx(nx, ny)
         IN  IF Fillable(mf, st, i)
             THEN LET count == adjacent_mine_count(mf, nx, ny)
                      st2 == [st EXCEPT ![i] = Revealed(count)]
                      stack2 == IF count = 0 THEN Append(stack, <<nx, ny>>) ELSE stack
                  IN  FillNeighbors(ns, k + 1, mf, st2, stack2)
             ELSE FillNeighbors(ns, k + 1, mf, st, stack)

\* The `while let Some((cx, cy)) = stack.pop()` loop.
RECURSIVE FillLoop(_, _, _)
FillLoop(stack, mf, st) ==
    IF stack = <<>> THEN st
    ELSE LET c == stack[Len(stack)]
             rest == SubSeq(stack, 1, Len(stack) - 1)
             r == FillNeighbors(neighbors(c[1], c[2]), 1, mf, st, rest)
         IN  FillLoop(r.stack, mf, r.st)

\* Variant: only the neighbours of the start cell are visited.
flood_fill_one_ring(x, y, mf, st) ==
    FillNeighbors(neighbors(x, y), 1, mf, st, <<>>).st

flood_fill_zeroes(x, y, mf, st) == FillLoop(<< <<x, y>> >>, mf, st)

HiddenCount(st) == Cardinality({i \in DOMAIN st : st[i] = Hidden})

\* FillNeighbors with a record of the pushes: log.pushes are the cells pushed
\* on the stack so far, log.hidden the number of Hidden cells at each push.
RECURSIVE FillNeighborsLog(_, _, _, _, _, _)
FillNeighborsLog(ns, k, mf, st, stack, log) ==
    IF k > Len(ns) THEN [st |-> st, stack |-> stack, log |-> log]
    ELSE LET nx == ns[k][1]
             ny == ns[k][2]
             i == idx(nx, ny)
         IN  IF Fillable(mf, st, i)
             THEN LET count == adjacent_mine_count(mf, nx, ny)
                      st2 == [st EXCEPT ![i] = Revealed(count)]
                      pushed == count = 0
                      stack2 == IF pushed THEN Append(stack, <<nx, ny>>) ELSE stack
                      log2 == IF pushed
                              THEN [pushes |-> Append(log.pushes, <<nx, ny>>),
                                    hidden |-> Append(log.hidden, HiddenCount(st2))]
                              ELSE log
                  IN  FillNeighborsLog(ns, k + 1, mf, st2, stack2, log2)
             ELSE FillNeighborsLog(ns, k + 1, mf, st, stack, log)

\* FillLoop with the record of the pushes and the number of iterations of
\* the while loop.
RECURSIVE FillLoopLog(_, _, _, _, _)
FillLoopLog(stack, mf, st, log, iters) ==
    IF stack = <<>> THEN [st |-> st, pushes |-> log.pushes, hidden |-> log.hidden,
                          iters |-> iters]
    ELSE LET c == stack[Len(stack)]
             rest == SubSeq(stack, 1, Len(stack) - 1)
             r == FillNeighborsLog(neighbors(c[1], c[2]), 1, mf, st, rest, log)
         IN  FillLoopLog(r.stack, mf, r.st, r.log, iters + 1)

\* flood_fill_zeroes with the record; the start cell is the first push.
flood_fill_zeroes_log(x, y, mf, st) ==
    FillLoopLog(<< <<x, y>> >>, mf, st,
                [pushes |-> << <<x, y>> >>, hidden |-> <<HiddenCount(st)>>], 0)

\* Variant: the fill starts before the target is marked Revealed.
RevealFillUnmarked(x, y, mf, st) == flood_fill_zeroes_log(x, y, mf, st)

\* The flood fill reveal runs on a Hidden target without mines around it:
\* the target is marked Revealed(0), then the fill starts from it.
RevealFill(x, y, mf, st) ==
    flood_fill_zeroes_log(x, y, mf, [st EXCEPT ![idx(x, y)] = Revealed(0)])

\* Variant: the mine test comes before the test of the cell's state.
RevealCellMineFirst(x, y, mf, st) ==
    LET i == idx(x, y)
    IN  IF mf[i]
        THEN [ret |-> FALSE, st |-> st]
        ELSE IF st[i] = Hidden
             THEN LET count == adjacent_mine_count(mf, x, y)
                      st2 == [st EXCEPT ![i] = Revealed(count)]
                  IN  [ret |-> TRUE,
                       st |-> IF count = 0 THEN flood_fill_zeroes(x, y, mf, st2) ELSE st2]
             ELSE [ret |-> TRUE, st |-> st]

\* Variant: a zero count starts no flood fill.
RevealCellNoFill(x, y, mf, st) ==
    LET i == idx(x, y)
    IN  IF st[i] = Hidden
        THEN IF mf[i]
             THEN [ret |-> FALSE, st |-> st]
             ELSE [ret |-> TRUE,
                   st |-> [st EXCEPT ![i] = Revealed(adjacent_mine_count(mf, x, y))]]
        ELSE [ret |-> TRUE, st |-> st]

\* The `match self.state[i]` of reveal, with the mines placed as mf.
RevealCell(x, y, mf, st) ==
    LET i == idx(x, y)
    IN  IF st[i] = Hidden
        THEN IF mf[i]
             THEN [ret |-> FALSE, st |-> st]
             ELSE LET count == adjacent_mine_count(mf, x, y)
                      st2 == [st EXCEPT ![i] = Revealed(count)]
                  IN  [ret |-> TRUE,
                       st |-> IF count = 0 THEN flood_fill_zeroes(x, y, mf, st2) ELSE st2]
        ELSE [ret |-> TRUE, st |-> st]

\* Variant: every cell that is not Hidden becomes Hidden.
ToggledCellUnreveal(c) ==
    IF c = Hidden THEN Flagged ELSE Hidden

\* Variant: a Revealed cell takes a flag.
ToggledCellFlagRevealed(c) ==
    IF c = Flagged THEN Hidden ELSE Flagged

\* Variant: a flag, once set, is not taken off.
ToggledCellSticky(c) ==
    IF c = Hidden THEN Flagged ELSE c

ToggledCell(c) ==
    IF c = Hidden THEN Flagged
    ELSE IF c = Flagged THEN Hidden
    ELSE c

flag_count(x, y, st) ==
    LET ns == neighbors(x, y)
    IN  Cardinality({k \in 1..Len(ns) : st[idx(ns[k][1], ns[k][2])] = Flagged}) % 256

\* Variant: the batch stops at the first mine it steps on.
RECURSIVE ChordLoopShort(_, _, _, _, _)
ChordLoopShort(ns, k, mf, st, safe) ==
    IF k > Len(ns) THEN [ret |-> safe, st |-> st]
    ELSE LET nx == ns[k][1]
             ny == ns[k][2]
             i == idx(nx, ny)
         IN  IF st[i] = Hidden
             THEN IF mf[i]
                  THEN [ret |-> FALSE, st |-> st]
                  ELSE LET count == adjacent_mine_count(mf, nx, ny)
                           st2 == [st EXCEPT ![i] = Revealed(count)]
                           st3 == IF count = 0
                                  THEN flood_fill_zeroes(nx, ny, mf, st2)
                                  ELSE st2
                       IN  ChordLoopShort(ns, k + 1, mf, st3, safe)
             ELSE ChordLoopShort(ns, k + 1, mf, st, safe)

\* Variant: the batch opens Flagged neighbours like Hidden ones.
RECURSIVE ChordLoopFlagged(_, _, _, _, _)
ChordLoopFlagged(ns, k, mf, st, safe) ==
    IF k > Len(ns) THEN [ret |-> safe, st |-> st]
    ELSE LET nx == ns[k][1]
             ny == ns[k][2]
             i == idx(nx, ny)
         IN  IF ~IsRevealed(st[i])
             THEN IF mf[i]
                  THEN ChordLoopFlagged(ns, k + 1, mf, st, FALSE)
                  ELSE LET count == adjacent_mine_count(mf, nx, ny)
                           st2 == [st EXCEPT ![i] = Revealed(count)]
                           st3 == IF count = 0
                                  THEN flood_fill_zeroes(nx, ny, mf, st2)
                                  ELSE st2
                       IN  ChordLoopFlagged(ns, k + 1, mf, st3, safe)
             ELSE ChordLoopFlagged(ns, k + 1, mf, st, safe)

\* The batch loop of chord, from the k-th neighbour on.
RECURSIVE ChordLoop(_, _, _, _, _)
ChordLoop(ns, k, mf, st, safe) ==
    IF k > Len(ns) THEN [ret |-> safe, st |-> st]
    ELSE LET nx == ns[k][1]
             ny == ns[k][2]
             i == idx(nx, ny)
         IN  IF st[i] = Hidden
             THEN IF mf[i]
                  THEN ChordLoop(ns, k + 1, mf, st, FALSE)
                  ELSE LET count == adjacent_mine_count(mf, nx, ny)
                           st2 == [st EXCEPT ![i] = Revealed(count)]
                           st3 == IF count = 0
                                  THEN flood_fill_zeroes(nx, ny, mf, st2)
                                  ELSE st2
                       IN  ChordLoop(ns, k + 1, mf, st3, safe)
             ELSE ChordLoop(ns, k + 1, mf, st, safe)

\* Variant: the gate lets a chord through when there are more flags than
\* the number asks for.
ChordCellAtLeast(x, y, mf, st) ==
    LET i == idx(x, y)
    IN  IF ~(IsRevealed(st[i]) /\ st[i].n > 0)
        THEN [ret |-> TRUE, st |-> st]
        ELSE IF flag_count(x, y, st) < st[i].n
             THEN [ret |-> TRUE, st |-> st]
             ELSE ChordLoop(neighbors(x, y), 1, mf, st, TRUE)

\* Variant: a Revealed(0) cell can be chorded.
ChordCellAnyRevealed(x, y, mf, st) ==
    LET i == idx(x, y)
    IN  IF ~IsRevealed(st[i])
        THEN [ret |-> TRUE, st |-> st]
        ELSE IF flag_count(x, y, st) # st[i].n
             THEN [ret |-> TRUE, st |-> st]
             ELSE ChordLoop(neighbors(x, y), 1, mf, st, TRUE)

\* Variant: the gate lets a chord through when there are fewer flags than the
\* number asks for.
ChordCellAtMost(x, y, mf, st) ==
    LET i == idx(x, y)
    IN  IF ~(IsRevealed(st[i]) /\ st[i].n > 0)
        THEN [ret |-> TRUE, st |-> st]
        ELSE IF flag_count(x, y, st) > st[i].n
             THEN [ret |-> TRUE, st |-> st]
             ELSE ChordLoop(neighbors(x, y), 1, mf, st, TRUE)

\* The body of chord after the bounds check.
ChordCell(x, y, mf, st) ==
    LET i == idx(x, y)
    IN  IF ~(IsRevealed(st[i]) /\ st[i].n > 0)
        THEN [ret |-> TRUE, st |-> st]
        ELSE IF flag_count(x, y, st) # st[i].n
             THEN [ret |-> TRUE, st |-> st]
             ELSE ChordLoop(neighbors(x, y), 1, mf, st, TRUE)

\* Variant: a mine must carry a flag for the board to be won.
UnfinishedUnlessFlagged(mf, st, i) ==
    IF mf[i] THEN st[i] # Flagged ELSE ~IsRevealed(st[i])

\* The cell test of is_win: a cell that keeps the board from being won.
Unfinished(mf, st, i) == ~mf[i] /\ ~IsRevealed(st[i])

\* The nested y/x loops of is_win in scan order, with the early return.
RECURSIVE WinScan(_, _, _, _)
WinScan(x, y, mf, st) ==
    IF y >= height THEN TRUE
    ELSE IF x >= width THEN WinScan(0, y + 1, mf, st)
    ELSE IF Unfinished(mf, st, idx(x, y)) THEN FALSE
    ELSE WinScan(x + 1, y, mf, st)

is_win == WinScan(0, 0, minefield, state)

flags_count == Cardinality({i \in DOMAIN state : state[i] = Flagged})

\* ------------------------------------------------------------ construction
\* The session fields when the board is used on its own: no session drives
\* it and the fields keep these values.
NoSession ==
    /\ cursor = [x |-> 0, y |-> 0]
    /\ difficulty = "Easy"
    /\ first_click_done = FALSE
    /\ start_time = {}
    /\ flags_placed = 0
    /\ status = "Playing"
    /\ command = "None"

\* Board::new: the asserts restrict the parameters, every cell starts
\* Hidden and unmined.
Dims ==
    {d \in (1..MaxW) \X (1..MaxH) \X (0..MaxMines) :
        d[1] * d[2] <= MaxCells /\ d[3] < d[1] * d[2]}

Init ==
    \E d \in Dims :
        /\ width = d[1]
        /\ height = d[2]
        /\ mines = d[3]
        /\ mines_placed = FALSE
        /\ minefield = [i \in 0..(d[1] * d[2] - 1) |-> FALSE]
        /\ state = [i \in 0..(d[1] * d[2] - 1) |-> Hidden]
        /\ last = Call("new", 0, 0, TRUE)
        /\ first_reveal = NoCell
        /\ before = NoBoard
        /\ NoSession

\* ----------------------------------------------------------------- actions
\* Arguments of the calls: every cell of the board and two cells outside it.
Args == {p \in (0..width) \X (0..height) : in_bounds(p[1], p[2])}
            \cup {<<width, 0>>, <<0, height>>}

\* Variant: the lazy placement comes before the bounds check.
reveal_place_first(x, y) ==
    \E mf \in (IF mines_placed THEN {minefield} ELSE place_mines_excluding(<<x, y>>)) :
        LET r == IF in_bounds(x, y)
                 THEN RevealCell(x, y, mf, state)
                 ELSE [ret |-> TRUE, st |-> state]
        IN  /\ minefield' = mf
            /\ mines_placed' = TRUE
            /\ state' = r.st
            /\ last' = Call("reveal", x, y, r.ret)
            /\ first_reveal' = IF first_reveal = NoCell /\ in_bounds(x, y)
                               THEN <<x, y>> ELSE first_reveal
            /\ before' = NoBoard
            /\ UNCHANGED <<width, height, mines, svars>>

\* Variant: a board without mines is never marked as placed.
reveal_skip_empty(x, y) ==
    IF ~in_bounds(x, y)
    THEN /\ last' = Call("reveal", x, y, TRUE)
         /\ before' = NoBoard
         /\ UNCHANGED <<bvars, first_reveal, svars>>
    ELSE \E mf \in (IF mines_placed THEN {minefield} ELSE place_mines_excluding(<<x, y>>)) :
            LET r == RevealCell(x, y, mf, state)
            IN  /\ minefield' = mf
                /\ mines_placed' = (mines_placed \/ mines > 0)
                /\ state' = r.st
                /\ last' = Call("reveal", x, y, r.ret)
                /\ first_reveal' = IF first_reveal = NoCell THEN <<x, y>> ELSE first_reveal
                /\ before' = NoBoard
                /\ UNCHANGED <<width, height, mines, svars>>

reveal(x, y) ==
    IF ~in_bounds(x, y)
    THEN /\ last' = Call("reveal", x, y, TRUE)
         /\ before' = NoBoard
         /\ UNCHANGED <<bvars, first_reveal, svars>>
    ELSE \E mf \in (IF mines_placed THEN {minefield} ELSE place_mines_excluding(<<x, y>>)) :
            LET r == RevealCell(x, y, mf, state)
            IN  /\ minefield' = mf
                /\ mines_placed' = TRUE
                /\ state' = r.st
                /\ last' = Call("reveal", x, y, r.ret)
                /\ first_reveal' = IF first_reveal = NoCell THEN <<x, y>> ELSE first_reveal
                /\ before' = NoBoard
                /\ UNCHANGED <<width, height, mines, svars>>

toggle_flag(x, y) ==
    /\ state' = IF in_bounds(x, y)
                THEN [state EXCEPT ![idx(x, y)] = ToggledCell(state[idx(x, y)])]
                ELSE state
    /\ last' = Call("toggle_flag", x, y, TRUE)
    /\ before' = [st |-> state,
                  again |-> last.op = "toggle_flag" /\ last.x = x /\ last.y = y]
    /\ UNCHANGED <<width, height, mines, mines_placed, minefield, first_reveal, svars>>

chord(x, y) ==
    LET r == IF in_bounds(x, y)
             THEN ChordCell(x, y, minefield, state)
             ELSE [ret |-> TRUE, st |-> state]
    IN  /\ state' = r.st
        /\ last' = Call("chord", x, y, r.ret)
        /\ before' = NoBoard
        /\ UNCHANGED <<width, height, mines, mines_placed, minefield, first_reveal, svars>>

\* A call of the is_win query.
IsWinCall ==
    /\ last' = Call("is_win", 0, 0, is_win)
    /\ before' = NoBoard
    /\ UNCHANGED <<bvars, first_reveal, svars>>

Next ==
    \/ \E p \in Args : reveal(p[1], p[2])
    \/ \E p \in Args : toggle_flag(p[1], p[2])
    \/ \E p \in Args : chord(p[1], p[2])
    \/ IsWinCall

Spec == Init /\ [][Next]_vars

\* Variant: no early return when the mines are already placed; the new draw
\* is marked on top of the old layout.
place_mines_again(x, y) ==
    /\ \E mf \in place_mines_excluding(<<x, y>>) :
          minefield' = [i \in DOMAIN minefield |-> minefield[i] \/ mf[i]]
    /\ mines_placed' = TRUE
    /\ last' = Call("place_mines_excluding", x, y, TRUE)
    /\ before' = NoBoard
    /\ UNCHANGED <<width, height, mines, state, first_reveal, svars>>

\* A direct call of the public place_mines_excluding((x, y)).
place_mines_call(x, y) ==
    /\ \E mf \in (IF mines_placed THEN {minefield} ELSE place_mines_excluding(<<x, y>>)) :
          minefield' = mf
    /\ mines_placed' = TRUE
    /\ last' = Call("place_mines_excluding", x, y, TRUE)
    /\ before' = NoBoard
    /\ UNCHANGED <<width, height, mines, state, first_reveal, svars>>

NextPlace ==
    \/ Next
    \/ \E p \in Args : place_mines_call(p[1], p[2])

SpecPlace == Init /\ [][NextPlace]_vars

\* ------------------------------------------------- construction, any input
Difficulties == {"Easy", "Medium", "Hard"}

\* Difficulty::parameters: (width, height, mines) of a preset.
parameters(d) ==
    CASE d = "Easy" -> <<9, 9, 10>>
      [] d = "Medium" -> <<16, 16, 40>>
      [] d = "Hard" -> <<30, 16, 99>>

\* Variant: the second assert lets a board full of mines through.
new_panics_full(w, h, m) == ~(w > 0 /\ h > 0) \/ ~(m <= w * h)

\* Board::new aborts: one of its two asserts fails.
new_panics(w, h, m) == ~(w > 0 /\ h > 0) \/ ~(m < w * h)

\* The board Board::new returns when it does not abort.
NewBoard(w, h, m) ==
    [width |-> w, height |-> h, mines |-> m, mines_placed |-> FALSE,
     minefield |-> [i \in 0..(w * h - 1) |-> FALSE],
     state |-> [i \in 0..(w * h - 1) |-> Hidden]]

\* Arguments Board::new is called with: small ones, zero dimensions and too
\* many mines included, and the three presets.
NewArgs ==
    {d \in (0..MaxW) \X (0..MaxH) \X (0..MaxMines) : d[1] * d[2] <= MaxCells}
        \cup {parameters(d) : d \in Difficulties}

\* Board::new(d[1], d[2], d[3]); after an abort there is no board, which the
\* empty cell arrays stand for, and `last` records the abort as ret = FALSE.
InitNew ==
    \E d \in NewArgs :
        /\ width = d[1]
        /\ height = d[2]
        /\ mines = d[3]
        /\ IF new_panics(d[1], d[2], d[3])
           THEN /\ mines_placed = FALSE
                /\ minefield = <<>>
                /\ state = <<>>
                /\ last = Call("new", 0, 0, FALSE)
           ELSE /\ mines_placed = NewBoard(d[1], d[2], d[3]).mines_placed
                /\ minefield = NewBoard(d[1], d[2], d[3]).minefield
                /\ state = NewBoard(d[1], d[2], d[3]).state
                /\ last = Call("new", 0, 0, TRUE)
        /\ first_reveal = NoCell
        /\ before = NoBoard
        /\ NoSession

\* Calls on the board that was built; the operations are explored on the
\* boards of at most MaxCells cells.
NextNew ==
    /\ last.op = "new" => last.ret
    /\ state # <<>>
    /\ width * height <= MaxCells
    /\ Next

SpecNew == InitNew /\ [][NextNew]_vars

\* ----------------------------------------------------------------- session
\* The boards the session is explored on.  The presets of
\* Difficulty::parameters (9x9, 16x16 and 30x16 cells) are beyond exhaustive
\* exploration; the session reads the preset only to build the board, so
\* three small boards of different shapes stand in for them.
SessionParameters(d) ==
    CASE d = "Easy" -> <<2, 2, 1>>
      [] d = "Medium" -> <<3, 1, 1>>
      [] d = "Hard" -> <<4, 1, 2>>

\* The readings Instant::now() can give.
Instants == 1..MaxInstant

Moves ==
    [MoveLeft |-> <<-1, 0>>, MoveRight |-> <<1, 0>>,
     MoveUp |-> <<0, -1>>, MoveDown |-> <<0, 1>>]

Action(kind, d) == [kind |-> kind, d |-> d]

\* The values of Action; SetDifficulty carries a difficulty, the d of the
\* other actions is not read.
Actions ==
    {Action(k, "Easy") :
        k \in {"MoveLeft", "MoveRight", "MoveUp", "MoveDown",
               "Reveal", "ToggleFlag", "Chord", "Restart"}}
        \cup {Action("SetDifficulty", d) : d \in Difficulties}

\* AppState::new(d).
InitApp ==
    \E d \in Difficulties :
        LET b == NewBoard(SessionParameters(d)[1], SessionParameters(d)[2],
                          SessionParameters(d)[3])
        IN  /\ width = b.width
            /\ height = b.height
            /\ mines = b.mines
            /\ mines_placed = b.mines_placed
            /\ minefield = b.minefield
            /\ state = b.state
            /\ cursor = [x |-> 0, y |-> 0]
            /\ difficulty = d
            /\ first_click_done = FALSE
            /\ start_time = {}
            /\ flags_placed = 0
            /\ status = "Playing"
            /\ command = "None"
            /\ last = Call("new", 0, 0, TRUE)
            /\ first_reveal = NoCell
            /\ before = NoBoard

\* Variant: the board is rebuilt only when its preset changes.
restart_same_board(d) ==
    LET b == NewBoard(SessionParameters(d)[1], SessionParameters(d)[2],
                      SessionParameters(d)[3])
        same == <<width, height, mines>> = SessionParameters(d)
    IN  /\ width' = b.width
        /\ height' = b.height
        /\ mines' = b.mines
        /\ mines_placed' = IF same THEN mines_placed ELSE b.mines_placed
        /\ minefield' = IF same THEN minefield ELSE b.minefield
        /\ state' = IF same THEN state ELSE b.state
        /\ cursor' = [x |-> 0, y |-> 0]
        /\ first_click_done' = FALSE
        /\ start_time' = {}
        /\ flags_placed' = 0
        /\ status' = "Playing"

\* restart() with self.difficulty = d.
restart(d) ==
    LET b == NewBoard(SessionParameters(d)[1], SessionParameters(d)[2],
                      SessionParameters(d)[3])
    IN  /\ width' = b.width
        /\ height' = b.height
        /\ mines' = b.mines
        /\ mines_placed' = b.mines_placed
        /\ minefield' = b.minefield
        /\ state' = b.state
        /\ cursor' = [x |-> 0, y |-> 0]
        /\ first_click_done' = FALSE
        /\ start_time' = {}
        /\ flags_placed' = 0
        /\ status' = "Playing"

\* The Restart and SetDifficulty arms, the same in both matches.
RestartAction(a) ==
    /\ a.kind \in {"Restart", "SetDifficulty"}
    /\ difficulty' = IF a.kind = "SetDifficulty" THEN a.d ELSE difficulty
    /\ restart(difficulty')
    /\ command' = "Redraw"
    /\ last' = Call(a.kind, cursor.x, cursor.y, TRUE)

\* Variant: the cursor moves without the bounds test.
try_move_unclamped(a) ==
    LET nx == cursor.x + Moves[a.kind][1]
        ny == cursor.y + Moves[a.kind][2]
    IN  /\ cursor' = [x |-> nx, y |-> ny]
        /\ command' = "Redraw"
        /\ last' = Call(a.kind, cursor.x, cursor.y, TRUE)
        /\ UNCHANGED <<bvars, difficulty, first_click_done, start_time, flags_placed, status>>

try_move(a) ==
    LET nx == cursor.x + Moves[a.kind][1]
        ny == cursor.y + Moves[a.kind][2]
    IN  /\ IF in_bounds(nx, ny)
           THEN cursor' = [x |-> nx, y |-> ny] /\ command' = "Redraw"
           ELSE cursor' = cursor /\ command' = "None"
        /\ last' = Call(a.kind, cursor.x, cursor.y, TRUE)
        /\ UNCHANGED <<bvars, difficulty, first_click_done, start_time, flags_placed, status>>

\* Variant: every call takes a new reading of the clock.
ensure_timer_restarted ==
    /\ first_click_done' = TRUE
    /\ \E t \in Instants : start_time' = {t}

ensure_timer_started ==
    IF ~first_click_done
    THEN first_click_done' = TRUE /\ \E t \in Instants : start_time' = {t}
    ELSE UNCHANGED <<first_click_done, start_time>>

\* Variant: an unsafe result is not looked at.
OutcomeNoLoss(safe, won) ==
    IF won THEN [status |-> "Win", command |-> "GameWon"]
    ELSE [status |-> status, command |-> "Redraw"]

\* The tail of reveal_at_cursor and of chord_at_cursor: the status and the
\* command that follow from the board's report and from is_win().
Outcome(safe, won) ==
    IF ~safe THEN [status |-> "Lose", command |-> "GameLost"]
    ELSE IF won THEN [status |-> "Win", command |-> "GameWon"]
    ELSE [status |-> status, command |-> "Redraw"]

reveal_at_cursor ==
    /\ ensure_timer_started
    /\ \E mf \in (IF mines_placed THEN {minefield}
                  ELSE place_mines_excluding(<<cursor.x, cursor.y>>)) :
          LET r == IF in_bounds(cursor.x, cursor.y)
                   THEN RevealCell(cursor.x, cursor.y, mf, state)
                   ELSE [ret |-> TRUE, st |-> state]
              o == Outcome(r.ret, WinScan(0, 0, mf, r.st))
          IN  /\ minefield' = IF in_bounds(cursor.x, cursor.y) THEN mf ELSE minefield
              /\ mines_placed' = (mines_placed \/ in_bounds(cursor.x, cursor.y))
              /\ state' = r.st
              /\ status' = o.status
              /\ command' = o.command
              /\ last' = Call("Reveal", cursor.x, cursor.y, r.ret)
    /\ UNCHANGED <<width, height, mines, cursor, difficulty, flags_placed>>

\* Variant: is_win() is not asked after a chord.
chord_at_cursor_no_win ==
    /\ ensure_timer_started
    /\ LET r == IF in_bounds(cursor.x, cursor.y)
                THEN ChordCell(cursor.x, cursor.y, minefield, state)
                ELSE [ret |-> TRUE, st |-> state]
           o == Outcome(r.ret, FALSE)
       IN  /\ state' = r.st
           /\ status' = o.status
           /\ command' = o.command
           /\ last' = Call("Chord", cursor.x, cursor.y, r.ret)
    /\ UNCHANGED <<width, height, mines, mines_placed, minefield, cursor, difficulty,
                   flags_placed>>

chord_at_cursor ==
    /\ ensure_timer_started
    /\ LET r == IF in_bounds(cursor.x, cursor.y)
                THEN ChordCell(cursor.x, cursor.y, minefield, state)
                ELSE [ret |-> TRUE, st |-> state]
           o == Outcome(r.ret, WinScan(0, 0, minefield, r.st))
       IN  /\ state' = r.st
           /\ status' = o.status
           /\ command' = o.command
           /\ last' = Call("Chord", cursor.x, cursor.y, r.ret)
    /\ UNCHANGED <<width, height, mines, mines_placed, minefield, cursor, difficulty,
                   flags_placed>>

\* Variant: the counter goes up for a Revealed cell as for a Hidden one.
ToggleFlagActionCountAll ==
    LET c == state[idx(cursor.x, cursor.y)]
    IN  /\ flags_placed' = IF c = Flagged
                           THEN (IF flags_placed > 0 THEN flags_placed - 1 ELSE 0)
                           ELSE flags_placed + 1
        /\ state' = IF in_bounds(cursor.x, cursor.y)
                    THEN [state EXCEPT ![idx(cursor.x, cursor.y)] = ToggledCell(c)]
                    ELSE state
        /\ command' = "Redraw"
        /\ last' = Call("ToggleFlag", cursor.x, cursor.y, TRUE)
        /\ UNCHANGED <<width, height, mines, mines_placed, minefield, cursor, difficulty,
                       first_click_done, start_time, status>>

\* The ToggleFlag arm: the counter follows the state of the cell under the
\* cursor, then the board toggles the flag.
ToggleFlagAction ==
    LET c == state[idx(cursor.x, cursor.y)]
    IN  /\ flags_placed' = IF c = Hidden THEN flags_placed + 1
                           ELSE IF c = Flagged
                                THEN (IF flags_placed > 0 THEN flags_placed - 1 ELSE 0)
                                ELSE flags_placed
        /\ state' = IF in_bounds(cursor.x, cursor.y)
                    THEN [state EXCEPT ![idx(cursor.x, cursor.y)] = ToggledCell(c)]
                    ELSE state
        /\ command' = "Redraw"
        /\ last' = Call("ToggleFlag", cursor.x, cursor.y, TRUE)
        /\ UNCHANGED <<width, height, mines, mines_placed, minefield, cursor, difficulty,
                       first_click_done, start_time, status>>

\* The first match of handle_action: the game is over.
GameOverAction(a) ==
    IF a.kind \in {"Restart", "SetDifficulty"}
    THEN RestartAction(a)
    ELSE /\ command' = "None"
         /\ last' = Call(a.kind, cursor.x, cursor.y, TRUE)
         /\ UNCHANGED <<bvars, cursor, difficulty, first_click_done, start_time,
                        flags_placed, status>>

\* The second match of handle_action: the game is on.
PlayingAction(a) ==
    CASE a.kind \in DOMAIN Moves -> try_move(a)
      [] a.kind = "Reveal" -> reveal_at_cursor
      [] a.kind = "ToggleFlag" -> ToggleFlagAction
      [] a.kind = "Chord" -> chord_at_cursor
      [] a.kind \in {"Restart", "SetDifficulty"} -> RestartAction(a)

\* Variant: the status is not looked at before the action is dispatched.
handle_action_unlatched(a) ==
    /\ PlayingAction(a)
    /\ UNCHANGED <<first_reveal, before>>

handle_action(a) ==
    /\ IF status # "Playing" THEN GameOverAction(a) ELSE PlayingAction(a)
    /\ UNCHANGED <<first_reveal, before>>

NextApp == \E a \in Actions : handle_action(a)

SpecApp == InitApp /\ [][NextApp]_vars

\* -------------------------------------------------------- neighbors, alone
\* Boards of up to MaxSide x MaxSide cells, as Board::new(w, h, 0) builds
\* them, on which neighbors is called cell by cell.
InitNeighbors ==
    \E w \in 1..MaxSide, h \in 1..MaxSide :
        /\ width = NewBoard(w, h, 0).width
        /\ height = NewBoard(w, h, 0).height
        /\ mines = NewBoard(w, h, 0).mines
        /\ mines_placed = NewBoard(w, h, 0).mines_placed
        /\ minefield = NewBoard(w, h, 0).minefield
        /\ state = NewBoard(w, h, 0).state
        /\ last = Call("new", 0, 0, TRUE)
        /\ first_reveal = NoCell
        /\ before = NoBoard
        /\ NoSession

\* A call of neighbors(x, y), collected; `last` keeps what it yielded.
NeighborsCall(x, y) ==
    /\ in_bounds(x, y)
    /\ last' = Call("neighbors", x, y, neighbors(x, y))
    /\ before' = NoBoard
    /\ UNCHANGED <<bvars, first_reveal, svars>>

NextNeighbors ==
    \E x \in 0..(MaxSide - 1), y \in 0..(MaxSide - 1) : NeighborsCall(x, y)

SpecNeighbors == InitNeighbors /\ [][NextNeighbors]_vars

\* ------------------------------------------------------------- properties
Cells == (0..(width - 1)) \X (0..(height - 1))

CellIdx(p) == idx(p[1], p[2])

\* King-move adjacency, stated on coordinates.
Adjacent(p, q) ==
    /\ p # q
    /\ p[1] - q[1] \in {-1, 0, 1}
    /\ p[2] - q[2] \in {-1, 0, 1}

MinesAround(mf, p) == Cardinality({q \in Cells : Adjacent(p, q) /\ mf[CellIdx(q)]})

MineCells == {i \in DOMAIN minefield : minefield[i]}

\* The call recorded in `last` is an in-bounds call of `op`.
InBoundsCall(c, op) == c.op = op /\ in_bounds(c.x, c.y)

\* C1: first-click safety.  The first in-bounds reveal, whatever toggle_flag,
\* chord and out-of-bounds calls came before it, returns true, turns a Hidden
\* target into a Revealed one, and its target is not a mine in the state it
\* produces nor in any later state.
C1_FirstClickSafety ==
    [][ /\ (first_reveal = NoCell /\ InBoundsCall(last', "reveal"))
            => /\ last'.ret
               /\ ~minefield'[idx(last'.x, last'.y)]
               /\ (state[idx(last'.x, last'.y)] = Hidden
                      => IsRevealed(state'[idx(last'.x, last'.y)]))
        /\ (first_reveal' # NoCell => ~minefield'[CellIdx(first_reveal')])
      ]_vars

\* A first reveal that came after a flag was set, on a board with mines.
C1_Witness ==
    /\ last.op = "reveal"
    /\ first_reveal = <<last.x, last.y>>
    /\ mines > 0
    /\ Cardinality({i \in DOMAIN state : IsRevealed(state[i])}) = 1
    /\ IsRevealed(state[CellIdx(first_reveal)])
    /\ flags_count > 0

\* C2: mine-count invariant.  Before placement no cell is a mine; after
\* placement exactly `mines` cells are mines and the cell excluded by the
\* placing reveal is not one of them.
C2_MineCount ==
    /\ ~mines_placed => MineCells = {}
    /\ mines_placed =>
          /\ Cardinality(MineCells) = mines
          /\ first_reveal # NoCell
          /\ CellIdx(first_reveal) \notin MineCells

\* Two mines are placed and the game has gone on to a chord.
C2_Witness ==
    /\ mines_placed
    /\ mines = 2
    /\ Cardinality(MineCells) = 2
    /\ InBoundsCall(last, "chord")

\* C3: count correctness.  Every Revealed(n) cell is not a mine and n is the
\* number of mines among its in-bounds king-move neighbours.
C3_CountCorrect ==
    \A p \in Cells :
        IsRevealed(state[CellIdx(p)]) =>
            /\ ~minefield[CellIdx(p)]
            /\ state[CellIdx(p)].n = MinesAround(minefield, p)

\* A chord has revealed cells: a zero cell and a numbered cell are Revealed.
C3_Witness ==
    /\ InBoundsCall(last, "chord")
    /\ \E p, q \in Cells :
          /\ state[CellIdx(p)] = Revealed(0)
          /\ IsRevealed(state[CellIdx(q)])
          /\ state[CellIdx(q)].n > 0
          /\ p # <<last.x, last.y>>
          /\ q = <<last.x, last.y>>

\* C4: per-cell state machine.  The only transitions of a cell are
\* Hidden -> Flagged, Flagged -> Hidden and Hidden -> Revealed(n); a
\* Revealed(n) cell keeps its state and its n.
C4_CellTransitions ==
    [][ \A i \in DOMAIN state :
           /\ state'[i] # state[i] =>
                 \/ state[i] = Hidden /\ state'[i] = Flagged
                 \/ state[i] = Flagged /\ state'[i] = Hidden
                 \/ state[i] = Hidden /\ IsRevealed(state'[i])
           /\ IsRevealed(state[i]) => state'[i] = state[i]
      ]_vars

\* toggle_flag was called on a cell that is Revealed.
C4_Witness ==
    /\ InBoundsCall(last, "toggle_flag")
    /\ IsRevealed(state[idx(last.x, last.y)])
    /\ state[idx(last.x, last.y)].n > 0

\* C5: flag immunity.  reveal and chord (flood fill included) leave every
\* cell that is Flagged when the call starts Flagged; a Flagged cell changes
\* state only through toggle_flag on that cell.
C5_FlagImmunity ==
    [][ \A i \in DOMAIN state :
           state[i] = Flagged =>
              /\ last'.op \in {"reveal", "chord"} => state'[i] = Flagged
              /\ state'[i] # Flagged =>
                    /\ InBoundsCall(last', "toggle_flag")
                    /\ idx(last'.x, last'.y) = i
      ]_vars

\* A flood fill has passed a Flagged safe cell: it lies next to a Revealed(0)
\* cell and is still Flagged.
C5_Witness ==
    /\ last.op \in {"reveal", "chord"}
    /\ \E p, q \in Cells :
          /\ Adjacent(p, q)
          /\ state[CellIdx(p)] = Revealed(0)
          /\ state[CellIdx(q)] = Flagged
          /\ ~minefield[CellIdx(q)]

\* C6: reveal returns false exactly when the target is in bounds, Hidden and
\* a mine at the moment of the check (after the lazy placement); a reveal
\* that returns false changes no cell's state.
C6_RevealResult ==
    [][ last'.op = "reveal" =>
           LET hit == /\ in_bounds(last'.x, last'.y)
                      /\ state[idx(last'.x, last'.y)] = Hidden
                      /\ minefield'[idx(last'.x, last'.y)]
           IN  /\ last'.ret = ~hit
               /\ ~last'.ret => state' = state
      ]_vars

\* A reveal stepped on a mine: it returned false and the mine is still Hidden.
C6_Witness ==
    /\ InBoundsCall(last, "reveal")
    /\ ~last.ret
    /\ state[idx(last.x, last.y)] = Hidden
    /\ minefield[idx(last.x, last.y)]

\* Every cell that is not a mine is Revealed.
AllSafeRevealed == \A i \in DOMAIN state : ~minefield[i] => IsRevealed(state[i])

\* C7: win condition.  is_win() is true exactly when every non-mine cell is
\* Revealed, whatever is Flagged; a call of is_win returns that value and
\* changes nothing on the board.
C7_WinCondition ==
    [][ /\ is_win <=> AllSafeRevealed
        /\ is_win' <=> AllSafeRevealed'
        /\ last'.op = "is_win" =>
              /\ last'.ret = AllSafeRevealed
              /\ UNCHANGED bvars
      ]_vars

\* is_win returned true on a board with one mine Flagged and one mine Hidden.
C7_Witness ==
    /\ last.op = "is_win"
    /\ last.ret
    /\ \E i, j \in MineCells : state[i] = Flagged /\ state[j] = Hidden

\* C8: win monotonicity.  is_win() is false on a fresh board and whenever a
\* non-mine cell is not Revealed, and once true it is true after every later
\* reveal, toggle_flag and chord.
C8_WinMonotone ==
    [][ /\ last.op = "new" => ~is_win
        /\ (\E i \in DOMAIN state : ~minefield'[i] /\ ~IsRevealed(state'[i])) => ~is_win'
        /\ is_win => is_win'
      ]_vars

\* A mine was flagged on a board that is already won.
C8_Witness ==
    /\ is_win
    /\ InBoundsCall(last, "toggle_flag")
    /\ state[idx(last.x, last.y)] = Flagged
    /\ mines > 0

\* The cells reached from the set S by steps from a zero-count cell of the
\* set to an adjacent cell that `open` admits.
RECURSIVE Spread(_, _, _)
Spread(S, mf, open) ==
    LET T == S \cup {q \in Cells :
                        /\ open[CellIdx(q)]
                        /\ \E p \in S : Adjacent(p, q) /\ MinesAround(mf, p) = 0}
    IN  IF T = S THEN S ELSE Spread(T, mf, open)

\* The 8-connected region of zero-count non-mine cells that contains p.
ZeroRegion(mf, p) ==
    Spread({p}, mf, [i \in DOMAIN mf |->
                        \E q \in Cells : CellIdx(q) = i /\ ~mf[i] /\ MinesAround(mf, q) = 0])

\* The zero region of p together with every neighbour of one of its cells.
ZeroRegionWithBorder(mf, p) ==
    LET Z == ZeroRegion(mf, p)
    IN  Z \cup {q \in Cells : \E z \in Z : Adjacent(z, q)}

\* The step is a reveal of a Hidden non-mine cell whose count is 0.
ZeroReveal ==
    /\ InBoundsCall(last', "reveal")
    /\ state[idx(last'.x, last'.y)] = Hidden
    /\ ~minefield'[idx(last'.x, last'.y)]
    /\ MinesAround(minefield', <<last'.x, last'.y>>) = 0

\* C9 as stated: after the reveal of a Hidden zero-count cell its whole zero
\* region and the border of that region are Revealed, and no mine is.
C9_FloodFillClosure_Stated ==
    [][ ZeroReveal =>
           /\ \A q \in ZeroRegionWithBorder(minefield', <<last'.x, last'.y>>) :
                 IsRevealed(state'[CellIdx(q)])
           /\ \A i \in MineCells' : ~IsRevealed(state'[i])
      ]_vars

\* C9 amended: after the reveal of a Hidden zero-count cell, the cells reached
\* from it by steps from a zero-count cell to an adjacent cell that was Hidden
\* when the call started are Revealed, no other cell changes, and no mine is
\* Revealed.
C9_FloodFillClosure ==
    [][ ZeroReveal =>
           LET R == Spread({<<last'.x, last'.y>>}, minefield',
                           [i \in DOMAIN state |-> state[i] = Hidden])
           IN  /\ \A q \in R : IsRevealed(state'[CellIdx(q)])
               /\ \A q \in Cells \ R : state'[CellIdx(q)] = state[CellIdx(q)]
               /\ \A i \in MineCells' : ~IsRevealed(state'[i])
      ]_vars

\* A reveal of a zero-count cell has filled at least three cells, up to a
\* numbered border cell, on a board with a mine.
C9_Witness ==
    /\ InBoundsCall(last, "reveal")
    /\ state[idx(last.x, last.y)] = Revealed(0)
    /\ mines > 0
    /\ \E p, q \in Cells :
          /\ p # <<last.x, last.y>>
          /\ ~Adjacent(p, <<last.x, last.y>>)
          /\ IsRevealed(state[CellIdx(p)])
          /\ state[CellIdx(p)].n > 0
          /\ state[CellIdx(q)] = Hidden

\* C10: on a freshly constructed board without mines, one reveal of any
\* in-bounds cell returns true, leaves every cell Revealed(0) and makes
\* is_win() true.
C10_NoMinesOneReveal ==
    [][ (last.op = "new" /\ mines = 0 /\ InBoundsCall(last', "reveal")) =>
           /\ last'.ret
           /\ \A i \in DOMAIN state : state'[i] = Revealed(0)
           /\ is_win'
      ]_vars

\* A four-cell board without mines is fully revealed after a reveal.
C10_Witness ==
    /\ InBoundsCall(last, "reveal")
    /\ mines = 0
    /\ width * height = 4
    /\ flags_count = 0
    /\ \A i \in DOMAIN state : state[i] = Revealed(0)

\* The number of Flagged cells among the king-move neighbours of p.
FlagsAround(st, p) == Cardinality({q \in Cells : Adjacent(p, q) /\ st[CellIdx(q)] = Flagged})

\* The step is a chord on a Revealed(n) cell with n > 0.
NumberChord ==
    /\ InBoundsCall(last', "chord")
    /\ IsRevealed(state[idx(last'.x, last'.y)])
    /\ state[idx(last'.x, last'.y)].n > 0

\* The step is a chord that passes the gate: as many Flagged neighbours as
\* the number of the cell.
GatedChord ==
    /\ NumberChord
    /\ FlagsAround(state, <<last'.x, last'.y>>) = state[idx(last'.x, last'.y)].n

\* C11: chord gating.  A chord on a Revealed(n) cell, n > 0, with fewer or
\* more than n Flagged neighbours returns true and changes neither a cell
\* state nor the mine layout.
C11_ChordGating ==
    [][ (NumberChord
           /\ FlagsAround(state, <<last'.x, last'.y>>) # state[idx(last'.x, last'.y)].n)
        => /\ last'.ret
           /\ UNCHANGED bvars
      ]_vars

\* A chord on a numbered cell with more flags around it than its number and
\* a Hidden neighbour left as it was.
C11_Witness ==
    /\ InBoundsCall(last, "chord")
    /\ IsRevealed(state[idx(last.x, last.y)])
    /\ state[idx(last.x, last.y)].n > 0
    /\ FlagsAround(state, <<last.x, last.y>>) > state[idx(last.x, last.y)].n
    /\ \E q \in Cells : Adjacent(q, <<last.x, last.y>>) /\ state[CellIdx(q)] = Hidden

\* C12: a chord on a target that is Hidden, Flagged, Revealed(0) or out of
\* bounds returns true and changes nothing on the board; it places no mines.
C12_ChordOtherTargets ==
    [][ (/\ last'.op = "chord"
         /\ \/ ~in_bounds(last'.x, last'.y)
            \/ state[idx(last'.x, last'.y)] \in {Hidden, Flagged, Revealed(0)})
        => /\ last'.ret
           /\ UNCHANGED bvars
      ]_vars

\* A chord on a Revealed(0) cell that has a Hidden neighbour and no Flagged
\* one.
C12_Witness ==
    /\ InBoundsCall(last, "chord")
    /\ state[idx(last.x, last.y)] = Revealed(0)
    /\ FlagsAround(state, <<last.x, last.y>>) = 0
    /\ \E q \in Cells : Adjacent(q, <<last.x, last.y>>) /\ state[CellIdx(q)] = Hidden

\* C13: a chord that passes the gate reveals every neighbour that was Hidden
\* and not a mine, even when another neighbour was a mine, leaves the state
\* of every mine neighbour as it was, and returns false exactly when a
\* neighbour was a Hidden mine.
C13_ChordProcessesAll ==
    [][ GatedChord =>
           LET p == <<last'.x, last'.y>>
               N == {q \in Cells : Adjacent(p, q)}
           IN  /\ \A q \in N :
                     (state[CellIdx(q)] = Hidden /\ ~minefield[CellIdx(q)])
                        => IsRevealed(state'[CellIdx(q)])
               /\ \A q \in N :
                     minefield[CellIdx(q)] => state'[CellIdx(q)] = state[CellIdx(q)]
               /\ last'.ret = ~(\E q \in N :
                                   state[CellIdx(q)] = Hidden /\ minefield[CellIdx(q)])
      ]_vars

\* A chord behind a wrong flag returned false: a neighbour is a Hidden mine
\* that comes first in the batch, a later neighbour is Revealed, and the
\* flag sits on a safe cell.
C13_Witness ==
    /\ InBoundsCall(last, "chord")
    /\ ~last.ret
    /\ \E q, r, f \in Cells :
          /\ Adjacent(q, <<last.x, last.y>>)
          /\ Adjacent(r, <<last.x, last.y>>)
          /\ Adjacent(f, <<last.x, last.y>>)
          /\ state[CellIdx(q)] = Hidden /\ minefield[CellIdx(q)]
          /\ IsRevealed(state[CellIdx(r)])
          /\ CellIdx(q) < CellIdx(r)
          /\ state[CellIdx(f)] = Flagged /\ ~minefield[CellIdx(f)]

\* C14: a chord with correct flags is safe.  When the Flagged neighbours of a
\* Revealed(n) cell, n > 0, are exactly its mine neighbours, chord returns
\* true, every non-mine neighbour is Revealed afterwards and the flagged
\* mines stay Flagged.
C14_ChordCorrectFlags ==
    [][ (NumberChord
           /\ \A q \in Cells : Adjacent(q, <<last'.x, last'.y>>) =>
                 (state[CellIdx(q)] = Flagged <=> minefield[CellIdx(q)]))
        => /\ last'.ret
           /\ \A q \in Cells : Adjacent(q, <<last'.x, last'.y>>) =>
                 IF minefield[CellIdx(q)]
                 THEN state'[CellIdx(q)] = Flagged
                 ELSE IsRevealed(state'[CellIdx(q)])
      ]_vars

\* A chord returned true next to two Flagged mines with every other neighbour
\* Revealed.
C14_Witness ==
    /\ InBoundsCall(last, "chord")
    /\ last.ret
    /\ state[idx(last.x, last.y)] = Revealed(2)
    /\ \A q \in Cells : Adjacent(q, <<last.x, last.y>>) =>
          IF minefield[CellIdx(q)]
          THEN state[CellIdx(q)] = Flagged
          ELSE IsRevealed(state[CellIdx(q)])
    /\ \E q \in Cells : Adjacent(q, <<last.x, last.y>>) /\ ~minefield[CellIdx(q)]

\* What one toggle_flag makes of a cell, stated case by case.
FlagFlip(c) ==
    CASE c = Hidden -> Flagged
      [] c = Flagged -> Hidden
      [] OTHER -> c

\* C15: flag round-trip.  One toggle_flag on an in-bounds cell maps Hidden to
\* Flagged and Flagged to Hidden, leaves a Revealed cell as it is and changes
\* no other cell and no mine; a second toggle_flag on the same cell right
\* after the first restores the board as it was before the first.
C15_FlagRoundTrip ==
    [][ InBoundsCall(last', "toggle_flag") =>
           /\ state'[idx(last'.x, last'.y)] = FlagFlip(state[idx(last'.x, last'.y)])
           /\ \A i \in DOMAIN state : i # idx(last'.x, last'.y) => state'[i] = state[i]
           /\ UNCHANGED <<width, height, mines, mines_placed, minefield>>
           /\ (last.op = "toggle_flag" /\ last.x = last'.x /\ last.y = last'.y)
                 => state' = before.st
      ]_vars

\* The second of two toggle_flag calls on a cell took the flag off again,
\* on a board whose mines are placed.
C15_Witness ==
    /\ InBoundsCall(last, "toggle_flag")
    /\ before.again
    /\ before.st[idx(last.x, last.y)] = Flagged
    /\ state[idx(last.x, last.y)] = Hidden
    /\ mines_placed
    /\ mines > 0

\* C16: out-of-bounds calls are silent no-ops.  reveal, toggle_flag and chord
\* on a cell outside the board leave the board unchanged, reveal and chord
\* return true, and an out-of-bounds reveal places no mines.
C16_OutOfBounds ==
    [][ (last'.op \in {"reveal", "toggle_flag", "chord"} /\ ~in_bounds(last'.x, last'.y))
        => /\ UNCHANGED bvars
           /\ last'.ret
      ]_vars

\* An out-of-bounds reveal on a board with mines to place left them unplaced.
C16_Witness ==
    /\ last.op = "reveal"
    /\ ~in_bounds(last.x, last.y)
    /\ ~mines_placed
    /\ mines > 0
    /\ flags_count > 0

\* C17: placement happens exactly once.  Once the mines are placed, no
\* reveal, chord, toggle_flag or place_mines_excluding call, whatever cell it
\* names, changes which cells are mines.
C17_PlacedOnce ==
    [][ mines_placed => (mines_placed' /\ minefield' = minefield) ]_vars

\* place_mines_excluding was called on a mine cell of a board that already
\* has a Revealed cell, and the mine is still there.
C17_Witness ==
    /\ InBoundsCall(last, "place_mines_excluding")
    /\ mines_placed
    /\ minefield[idx(last.x, last.y)]
    /\ \E i \in DOMAIN state : IsRevealed(state[i])

\* C18: construction.  new(W, H, M) aborts when W = 0, H = 0 or M >= W*H;
\* otherwise the board has W*H cells, all Hidden, no mine, mines not placed.
\* Each of the three presets is built, so no preset makes construction abort.
C18_Construction ==
    /\ last.op = "new" =>
          /\ last.ret = ~(width = 0 \/ height = 0 \/ mines >= width * height)
          /\ last.ret =>
                /\ Cardinality(DOMAIN state) = width * height
                /\ Cardinality(DOMAIN minefield) = width * height
                /\ \A i \in DOMAIN state : state[i] = Hidden
                /\ \A i \in DOMAIN minefield : ~minefield[i]
                /\ ~mines_placed
    /\ \A d \in Difficulties :
          <<width, height, mines>> = parameters(d) =>
              /\ state # <<>>
              /\ last = Call("new", 0, 0, TRUE)

\* new aborted on positive dimensions with as many mines as cells.
C18_Witness ==
    /\ last = Call("new", 0, 0, FALSE)
    /\ width > 0
    /\ height > 0
    /\ mines = width * height
    /\ state = <<>>

\* C19: session latch.  Once the status is Win or Lose, every action other
\* than Restart and SetDifficulty returns Command::None and leaves the board,
\* the cursor, the flag counter, the timer and the status unchanged; the
\* status leaves Win/Lose only through Restart or SetDifficulty.
C19_SessionLatch ==
    [][ (status # "Playing") =>
           /\ last'.op \notin {"Restart", "SetDifficulty"} =>
                 /\ command' = "None"
                 /\ UNCHANGED <<bvars, cursor, difficulty, flags_placed,
                                first_click_done, start_time, status>>
           /\ status' # status =>
                 /\ last'.op \in {"Restart", "SetDifficulty"}
                 /\ status' = "Playing"
      ]_vars

\* A ToggleFlag was handled after the game was lost on the mine under the
\* cursor: it returned None, the mine is still Hidden and no flag is counted.
C19_Witness ==
    /\ status = "Lose"
    /\ last.op = "ToggleFlag"
    /\ command = "None"
    /\ state[idx(cursor.x, cursor.y)] = Hidden
    /\ minefield[idx(cursor.x, cursor.y)]
    /\ flags_placed = 0

\* C20: session status transitions.  While Playing, a Reveal or Chord action
\* sets the status to Lose and returns GameLost exactly when the board call
\* reports unsafe, sets it to Win and returns GameWon exactly when the call
\* reports safe and every non-mine cell is Revealed afterwards, and leaves it
\* Playing (returning Redraw) otherwise; move and ToggleFlag actions never
\* change the status.
C20_StatusTransitions ==
    [][ /\ (status = "Playing" /\ last'.op \in {"Reveal", "Chord"}) =>
              /\ (status' = "Lose") = ~last'.ret
              /\ (command' = "GameLost") = ~last'.ret
              /\ (status' = "Win") = (last'.ret /\ AllSafeRevealed')
              /\ (command' = "GameWon") = (last'.ret /\ AllSafeRevealed')
              /\ (status' = "Playing") = (last'.ret /\ ~AllSafeRevealed')
              /\ (command' = "Redraw") = (last'.ret /\ ~AllSafeRevealed')
        /\ last'.op \in {"MoveLeft", "MoveRight", "MoveUp", "MoveDown", "ToggleFlag"}
              => status' = status
      ]_vars

\* A Chord behind a wrong flag lost the game: GameLost, with a Flagged safe
\* cell on the board.
C20_Witness ==
    /\ status = "Lose"
    /\ last.op = "Chord"
    /\ ~last.ret
    /\ command = "GameLost"
    /\ \E i \in DOMAIN state : state[i] = Flagged /\ ~minefield[i]

\* C21: flag counter in sync.  In every state of the session, whatever
\* actions led to it, flags_placed is the number of Flagged cells on the
\* board.
C21_FlagCounterInSync ==
    flags_placed = Cardinality({p \in Cells : state[CellIdx(p)] = Flagged})

\* A Reveal flood-filled next to two flags, and both are still counted.
C21_Witness ==
    /\ last.op = "Reveal"
    /\ flags_placed = 2
    /\ Cardinality({p \in Cells : IsRevealed(state[CellIdx(p)])}) >= 2

\* The cell one step from p in the direction of a move action.
StepFrom(p, op) ==
    CASE op = "MoveLeft" -> [x |-> p.x - 1, y |-> p.y]
      [] op = "MoveRight" -> [x |-> p.x + 1, y |-> p.y]
      [] op = "MoveUp" -> [x |-> p.x, y |-> p.y - 1]
      [] op = "MoveDown" -> [x |-> p.x, y |-> p.y + 1]

MoveOps == {"MoveLeft", "MoveRight", "MoveUp", "MoveDown"}

C23_FreshGame ==
    [][ \A a \in Actions :
           (a.kind \in {"Restart", "SetDifficulty"} /\ last'.op = a.kind /\ handle_action(a))
           => /\ difficulty' = IF a.kind = "SetDifficulty" THEN a.d ELSE difficulty
              /\ <<width', height', mines'>> = SessionParameters(difficulty')
              /\ DOMAIN state' = 0..(width' * height' - 1)
              /\ DOMAIN minefield' = 0..(width' * height' - 1)
              /\ \A i \in DOMAIN state' : state'[i] = Hidden /\ ~minefield'[i]
              /\ ~mines_placed'
              /\ cursor' = [x |-> 0, y |-> 0]
              /\ flags_placed' = 0
              /\ start_time' = {}
              /\ ~first_click_done'
              /\ status' = "Playing"
      ]_vars

\* A Restart came with the cursor away from the origin and left a fresh 2x2
\* board.
C23_Witness ==
    /\ last = Call("Restart", 1, 1, TRUE)
    /\ width = 2
    /\ height = 2
    /\ \A i \in DOMAIN state : state[i] = Hidden
    /\ ~mines_placed
    /\ status = "Playing"
    /\ start_time = {}

\* C24: timer start.  A fresh session has no start time and first_click_done
\* false.  The first Reveal or Chord action handled while Playing sets the
\* start time; no move and no ToggleFlag action sets it; once set it is kept by
\* every later Reveal and Chord and is cleared only by Restart and
\* SetDifficulty.
C24_TimerStart ==
    /\ (start_time = {} /\ ~first_click_done)
    /\ [](first_click_done = (start_time # {}))
    /\ [][ /\ (status = "Playing" /\ last'.op \in {"Reveal", "Chord"} /\ start_time = {})
                 => (start_time' # {} /\ first_click_done')
           /\ last'.op \in (MoveOps \cup {"ToggleFlag"})
                 => UNCHANGED <<start_time, first_click_done>>
           /\ (start_time # {} /\ last'.op \in {"Reveal", "Chord"})
                 => start_time' = start_time
           /\ (start_time # {} /\ start_time' # start_time)
                 => (last'.op \in {"Restart", "SetDifficulty"} /\ start_time' = {})
         ]_vars

\* A second Reveal opened a numbered cell next to an earlier opened one and
\* the timer still shows the first reading.
C24_Witness ==
    /\ last.op = "Reveal"
    /\ status = "Playing"
    /\ start_time = {1}
    /\ IsRevealed(state[idx(last.x, last.y)])
    /\ state[idx(last.x, last.y)].n > 0
    /\ \E i \in DOMAIN state : i # idx(last.x, last.y) /\ IsRevealed(state[i])

\* C25: flood-fill termination.  The flood fill that a reveal starts (a chord
\* runs the same fills, one neighbour after the other) terminates: no cell is
\* pushed on the work stack twice in one fill, the number of Hidden cells is
\* smaller at every push than at the push before it, and the loop runs one
\* iteration per push, at most W*H of them.
C25_FloodFillTermination ==
    [][ ( /\ InBoundsCall(last', "reveal")
          /\ state[idx(last'.x, last'.y)] = Hidden
          /\ ~minefield'[idx(last'.x, last'.y)]
          /\ MinesAround(minefield', <<last'.x, last'.y>>) = 0 )
        => \A t \in {RevealFill(last'.x, last'.y, minefield', state)} :
               /\ t.st = state'
               /\ \A j, k \in 1..Len(t.pushes) : j # k => t.pushes[j] # t.pushes[k]
               /\ t.hidden[1] < HiddenCount(state)
               /\ \A k \in 2..Len(t.pushes) : t.hidden[k] < t.hidden[k - 1]
               /\ t.iters = Len(t.pushes)
               /\ t.iters <= width * height
      ]_vars

\* The first reveal of a board with a mine flood-filled at least two cells
\* without mines around them.
C25_Witness ==
    /\ InBoundsCall(last, "reveal")
    /\ first_reveal = <<last.x, last.y>>
    /\ mines > 0
    /\ Cardinality({p \in Cells : state[CellIdx(p)] = Revealed(0)}) >= 2
    /\ \E p \in Cells : state[CellIdx(p)] = Flagged

\* Row-major order of two cells: by row, then by column.
RowMajorBefore(p, q) == p[2] < q[2] \/ (p[2] = q[2] /\ p[1] < q[1])

\* C26: neighbors(x, y) of an in-bounds cell yields exactly the cells
\* (x+dx, y+dy) with dx, dy in {-1, 0, 1}, not both 0, that lie inside the
\* grid: each once, never (x, y) itself, in row-major offset order; 8 cells
\* for an interior cell, 3 for a corner of a board at least 2 wide and 2
\* high; and a is a neighbour of b iff b is a neighbour of a.
C26_Neighbors ==
    last.op = "neighbors" =>
        LET p == <<last.x, last.y>>
            ns == last.ret
            n == Len(ns)
            Yielded(a) == {neighbors(a[1], a[2])[k] : k \in 1..Len(neighbors(a[1], a[2]))}
        IN  /\ {ns[k] : k \in 1..n}
                  = {<<p[1] + dx, p[2] + dy>> : dx \in {-1, 0, 1}, dy \in {-1, 0, 1}}
                      \cap (Cells \ {p})
            /\ \A j, k \in 1..n : j < k => RowMajorBefore(ns[j], ns[k])
            /\ \A k \in 1..n : ns[k] # p
            /\ (p[1] \in 1..(width - 2) /\ p[2] \in 1..(height - 2)) => n = 8
            /\ (width >= 2 /\ height >= 2 /\ p[1] \in {0, width - 1}
                   /\ p[2] \in {0, height - 1}) => n = 3
            /\ \A q \in Cells : (q \in Yielded(p)) <=> (p \in Yielded(q))

\* neighbors was called on an interior cell of a 4x3 board and yielded 8
\* cells.
C26_Witness ==
    /\ last.op = "neighbors"
    /\ width = 4
    /\ height = 3
    /\ last.x = 2
    /\ last.y = 1
    /\ Len(last.ret) = 8

\* C27: the session status agrees with the board.  In every state of the
\* session, status Win implies that every non-mine cell is Revealed, and
\* status Playing implies that some non-mine cell is not: no handled action
\* leaves a won board in Playing.
C27_StatusAgreesWithBoard ==
    /\ status = "Win" => (AllSafeRevealed /\ is_win)
    /\ status = "Playing" => (~AllSafeRevealed /\ ~is_win)

\* A Chord opened the last safe cells: the board is won and the status is Win.
C27_Witness ==
    /\ status = "Win"
    /\ last.op = "Chord"
    /\ command = "GameWon"
    /\ is_win
    /\ flags_placed > 0

\* C28: loss and win never coincide in one action.  Whenever chord returns
\* false, right after it a neighbour of its target that is not a mine is
\* still Flagged, so is_win() is false.
C28_LossExcludesWin ==
    [][ (InBoundsCall(last', "chord") /\ ~last'.ret)
        => /\ \E q \in Cells :
                 /\ Adjacent(q, <<last'.x, last'.y>>)
                 /\ ~minefield'[CellIdx(q)]
                 /\ state'[CellIdx(q)] = Flagged
           /\ ~AllSafeRevealed'
           /\ ~is_win'
      ]_vars

\* A chord returned false on a board where a single wrongly Flagged cell is
\* all that is left to reveal.
C28_Witness ==
    /\ InBoundsCall(last, "chord")
    /\ ~last.ret
    /\ Cardinality({i \in DOMAIN state : ~minefield[i] /\ ~IsRevealed(state[i])}) = 1
    /\ \A i \in DOMAIN state : (~minefield[i] /\ ~IsRevealed(state[i])) => state[i] = Flagged

\* C29: no reveal before placement.  In every state, if a cell is Revealed
\* the mines have been placed; while they are unplaced no cell is a mine and
\* every cell is Hidden or Flagged, and a chord called then changes nothing
\* on the board and returns true.
C29_NoRevealBeforePlacement ==
    /\ []((\E i \in DOMAIN state : IsRevealed(state[i])) => mines_placed)
    /\ [](~mines_placed =>
             \A i \in DOMAIN state : ~minefield[i] /\ state[i] \in {Hidden, Flagged})
    /\ [][ (~mines_placed /\ last'.op = "chord") => (UNCHANGED bvars /\ last'.ret) ]_vars

\* A chord was called on a Flagged cell of a board whose mines are still to
\* be placed.
C29_Witness ==
    /\ InBoundsCall(last, "chord")
    /\ state[idx(last.x, last.y)] = Flagged
    /\ ~mines_placed
    /\ mines > 0

====
